---- MODULE Spec2Model ----
(***************************************************************************)
(* URL routing of the ol3-viewer plugin (plugin/ol3-viewer/urls.py).       *)
(*                                                                         *)
(* The module declares a route table of three django.urls.path() entries.  *)
(* A path() route is a string template; the URL resolver turns it into an  *)
(* anchored pattern (literal text and <converter:parameter> captures),     *)
(* tries the entries of urlpatterns in order, and calls the view of the    *)
(* first entry that matches with the converted captures as keyword         *)
(* arguments; when no entry matches the request ends in a 404 response.    *)
(* reverse() builds a path from a view name and keyword arguments.         *)
(*                                                                         *)
(* Text is modelled as sequences of one-character strings, so matching,    *)
(* int() and str() are computed character by character.                    *)
(*                                                                         *)
(* Init is the state after urls.py has been imported: its import           *)
(* statements (lines 18 to 22) are taken to succeed. path() patterns are   *)
(* taken as django.urls documents them: anchored at both ends ("\Z"), int  *)
(* is [0-9]+ converted with int() and written back with str().             *)
(***************************************************************************)
EXTENDS Integers, Sequences, FiniteSets, TLC

VARIABLES url_patterns, req

vars == <<url_patterns, req>>

-----------------------------------------------------------------------------
(* Bounds of the model *)

\* longest identifier-and-rest part of an enumerated request path
MaxTail == 3
\* largest identifier handed to reverse()
MaxIid == 42
\* number of request threads resolving concurrently
NumWorkers == 2

-----------------------------------------------------------------------------
(* Text helpers *)

DigitChars == <<"0", "1", "2", "3", "4", "5", "6", "7", "8", "9">>

Digits == {DigitChars[i] : i \in 1..10}

DigitVal(c) == (CHOOSE i \in 1..10 : DigitChars[i] = c) - 1

Drop(s, k) == SubSeq(s, k + 1, Len(s))

Take(s, k) == SubSeq(s, 1, k)

StartsWith(s, lit) == Len(lit) <= Len(s) /\ Take(s, Len(lit)) = lit

RECURSIVE IndexFrom(_, _, _)
IndexFrom(s, c, i) ==
    IF i > Len(s) THEN 0 ELSE IF s[i] = c THEN i ELSE IndexFrom(s, c, i + 1)

\* position of the first occurrence of c in s, 0 when there is none
IndexOf(s, c) == IndexFrom(s, c, 1)

\* value of a digit string in the given base
RECURSIVE ValueInBase(_, _)
ValueInBase(s, base) ==
    IF s = <<>> THEN 0
    ELSE ValueInBase(Take(s, Len(s) - 1), base) * base + DigitVal(s[Len(s)])

\* faulty variant: a leading zero announces an octal literal
ToNatOctal(s) ==
    IF Len(s) > 1 /\ s[1] = "0" THEN ValueInBase(s, 8) ELSE ValueInBase(s, 10)

\* value of a digit string in base ten
RECURSIVE ToNat(_)
ToNat(s) ==
    IF s = <<>> THEN 0
    ELSE ToNat(Take(s, Len(s) - 1)) * 10 + DigitVal(s[Len(s)])

Unsigned(s) == IF s # <<>> /\ Head(s) \in {"-", "+"} THEN Tail(s) ELSE s

\* int(text) succeeds on an optional sign followed by digits and raises
\* ValueError on anything else
IsIntLiteral(s) == Unsigned(s) # <<>> /\ \A i \in 1..Len(Unsigned(s)) : Unsigned(s)[i] \in Digits

\* int(text)
ToInt(s) == IF s # <<>> /\ Head(s) = "-" THEN -ToNat(Unsigned(s)) ELSE ToNat(Unsigned(s))

\* faulty variant: the digits come out least significant first
RECURSIVE ToStrReversed(_)
ToStrReversed(n) ==
    IF n < 0 THEN <<"-">> \o ToStrReversed(-n)
    ELSE IF n < 10 THEN <<DigitChars[n + 1]>>
    ELSE <<DigitChars[(n % 10) + 1]>> \o ToStrReversed(n \div 10)

\* str(n) of an integer
RECURSIVE ToStr(_)
ToStr(n) ==
    IF n < 0 THEN <<"-">> \o ToStr(-n)
    ELSE IF n < 10 THEN <<DigitChars[n + 1]>>
    ELSE ToStr(n \div 10) \o <<DigitChars[(n % 10) + 1]>>

-----------------------------------------------------------------------------
(* django.urls.path() and the route table of urls.py *)

IID == <<"i", "i", "d">>

INT == <<"i", "n", "t">>

STR == <<"s", "t", "r">>

PATH == <<"p", "a", "t", "h">>

CAPTURE == <<"<">> \o INT \o <<":">> \o IID \o <<">">>

PLUGIN == <<"p", "l", "u", "g", "i", "n">>

PLUGIN_DEBUG == PLUGIN \o <<"-", "d", "e", "b", "u", "g">>

SLASH == <<"/">>

Lit(text) == [kind |-> "lit", text |-> text, conv |-> <<>>, param |-> <<>>]

Cap(conv, param) == [kind |-> "cap", text |-> <<>>, conv |-> conv, param |-> param]

\* the inside of "<...>": converter, colon, parameter, or the parameter alone
Capture(inner) ==
    IF IndexOf(inner, ":") = 0 THEN Cap(STR, inner)
    ELSE Cap(Take(inner, IndexOf(inner, ":") - 1), Drop(inner, IndexOf(inner, ":")))

\* the route cut into literal text and <converter:parameter> captures; a
\* capture without a converter is a str capture
RECURSIVE RouteToParts(_)
RouteToParts(route) ==
    LET a == IndexOf(route, "<")
        rest == Drop(route, a)
        b == IndexOf(rest, ">")
    IN  IF a = 0 \/ b < 2
        THEN <<Lit(route)>>
        ELSE <<Lit(Take(route, a - 1)), Capture(Take(rest, b - 1))>>
             \o RouteToParts(Drop(rest, b))

\* path(route, view, name=name): the entry keeps the route and the pattern
\* compiled from it
Route(route, view, name) ==
    [route |-> route, parts |-> RouteToParts(route), view |-> view, name |-> name]

\* faulty variant: the views of the plugin and plugin-debug routes are swapped
urlpatternsSwapped ==
    << Route(CAPTURE \o SLASH, "index", "ol3-viewer-index"),
       Route(PLUGIN \o SLASH \o CAPTURE \o SLASH, "plugin_debug", "ol3-viewer-plugin"),
       Route(PLUGIN_DEBUG \o SLASH \o CAPTURE \o SLASH, "plugin",
             "ol3-viewer-plugin-debug") >>

\* faulty variant: a catch-all entry "<path:rest>" for the imported TemplateView
\* is left at the end of the table
urlpatternsCatchAll ==
    << Route(CAPTURE \o SLASH, "index", "ol3-viewer-index"),
       Route(PLUGIN \o SLASH \o CAPTURE \o SLASH, "plugin", "ol3-viewer-plugin"),
       Route(PLUGIN_DEBUG \o SLASH \o CAPTURE \o SLASH, "plugin_debug",
             "ol3-viewer-plugin-debug"),
       Route(<<"<">> \o PATH \o <<":", "r", "e", "s", "t", ">">>, "template",
             "ol3-viewer-template") >>

\* faulty variant: the plugin-debug entry still carries the plugin route
urlpatternsDuplicate ==
    << Route(CAPTURE \o SLASH, "index", "ol3-viewer-index"),
       Route(PLUGIN \o SLASH \o CAPTURE \o SLASH, "plugin", "ol3-viewer-plugin"),
       Route(PLUGIN \o SLASH \o CAPTURE \o SLASH, "plugin_debug",
             "ol3-viewer-plugin-debug") >>

\* faulty variant: the index route names its parameter id, "<int:id>/"
urlpatternsRenamed ==
    << Route(<<"<">> \o INT \o <<":", "i", "d", ">">> \o SLASH, "index",
             "ol3-viewer-index"),
       Route(PLUGIN \o SLASH \o CAPTURE \o SLASH, "plugin", "ol3-viewer-plugin"),
       Route(PLUGIN_DEBUG \o SLASH \o CAPTURE \o SLASH, "plugin_debug",
             "ol3-viewer-plugin-debug") >>

urlpatterns ==
    << Route(CAPTURE \o SLASH, "index", "ol3-viewer-index"),
       Route(PLUGIN \o SLASH \o CAPTURE \o SLASH, "plugin", "ol3-viewer-plugin"),
       Route(PLUGIN_DEBUG \o SLASH \o CAPTURE \o SLASH, "plugin_debug",
             "ol3-viewer-plugin-debug") >>


-----------------------------------------------------------------------------
(* Matching a path against a compiled pattern *)

\* faulty variant: the int class also takes a sign, [-+0-9]+
ConvAcceptsSigned(conv, ch) ==
    IF conv = INT THEN ch \in Digits \cup {"-", "+"}
    ELSE IF conv = STR THEN ch # "/"
    ELSE conv = PATH

\* the character class of a converter's regex: int is [0-9]+, str is [^/]+,
\* path is .+
ConvAccepts(conv, ch) ==
    IF conv = INT THEN ch \in Digits
    ELSE IF conv = STR THEN ch # "/"
    ELSE conv = PATH

\* converter.to_python raises ValueError when int(value) does
Converts(conv, text) == conv = INT => IsIntLiteral(text)

\* converter.to_python: int(value) for int, the text itself otherwise
ToPython(conv, text) == IF conv = INT THEN ToInt(text) ELSE text

\* converter.to_url: str(value) for int, the value itself otherwise
ToUrl(conv, value) == IF conv = INT THEN ToStr(value) ELSE value

\* length of the longest prefix of s made of characters the converter accepts
RECURSIVE RunLen(_, _)
RunLen(conv, s) ==
    IF s # <<>> /\ ConvAccepts(conv, Head(s)) THEN 1 + RunLen(conv, Tail(s)) ELSE 0

NoMatch == [ok |-> FALSE, kwargs |-> {}]

SetMax(S) == CHOOSE x \in S : \A y \in S : y <= x

\* a capture is "(?P<parameter>regex)" with the converter's regex, which ends
\* in "+": it takes at least one of the run's characters
CaptureLens(conv, s) == 1..RunLen(conv, s)

\* faulty variant: the pattern is not anchored at its end
AtEndLoose(s) == TRUE

\* an endpoint pattern ends in "\Z": nothing of the path may be left over
AtEnd(s) == s = <<>>

\* the regex search: the pattern is anchored at both ends; a capture is greedy
\* and gives characters back when the rest of the pattern needs them. The
\* groups are <<parameter, converter, matched text>>
RECURSIVE MatchFrom(_, _, _)
MatchFrom(parts, s, groups) ==
    IF parts = <<>>
    THEN IF AtEnd(s) THEN [ok |-> TRUE, kwargs |-> groups] ELSE NoMatch
    ELSE LET p == Head(parts) IN
         IF p.kind = "lit"
         THEN IF StartsWith(s, p.text)
              THEN MatchFrom(Tail(parts), Drop(s, Len(p.text)), groups)
              ELSE NoMatch
         ELSE LET with(k) == MatchFrom(Tail(parts), Drop(s, k),
                                       groups \cup {<<p.param, p.conv, Take(s, k)>>})
                  good == {k \in CaptureLens(p.conv, s) : with(k).ok}
              IN  IF good = {} THEN NoMatch ELSE with(SetMax(good))

\* every group of a regex match through its converter; a ValueError of a
\* converter turns the match into no match
ConvertGroups(m) ==
    IF m.ok /\ \A g \in m.kwargs : Converts(g[2], g[3])
    THEN [ok |-> TRUE, kwargs |-> {<<g[1], ToPython(g[2], g[3])>> : g \in m.kwargs}]
    ELSE NoMatch

\* RoutePattern.match of one entry of the table against a whole path: the regex
\* search, then every group through its converter; a ValueError of a converter
\* means no match
RouteMatch(r, path) == ConvertGroups(MatchFrom(r.parts, path, {}))

\* the captures an entry declares, as <<converter, parameter>> pairs in order
Captures(r) == SelectSeq(r.parts, LAMBDA p : p.kind = "cap")

-----------------------------------------------------------------------------
(* URLResolver.resolve and reverse as functions of the table *)

NotFound404 == [found |-> FALSE, view |-> "", name |-> "", kwargs |-> {}]

ResolverMatch(r, m) ==
    [found |-> TRUE, view |-> r.view, name |-> r.name, kwargs |-> m.kwargs]

\* the resolver's loop: the first entry, in table order, that matches
RECURSIVE ResolveFrom(_, _, _)
ResolveFrom(table, path, i) ==
    IF i > Len(table) THEN NotFound404
    ELSE IF RouteMatch(table[i], path).ok
         THEN ResolverMatch(table[i], RouteMatch(table[i], path))
         ELSE ResolveFrom(table, path, i + 1)

Resolve(table, path) == ResolveFrom(table, path, 1)

RECURSIVE Build(_, _)
Build(parts, kwargs) ==
    IF parts = <<>> THEN <<>>
    ELSE LET p == Head(parts) IN
         (IF p.kind = "lit" THEN p.text
          ELSE ToUrl(p.conv, (CHOOSE kv \in kwargs : kv[1] = p.param)[2]))
         \o Build(Tail(parts), kwargs)

NoReverseMatch == <<"!">>

\* reverse(name, kwargs): the entries registered under the name are tried last
\* registered first; a candidate counts when its parameters are the given ones
\* and the text built from it matches its own pattern
Reverse(table, name, kwargs) ==
    LET params(i) == {Captures(table[i])[j].param : j \in 1..Len(Captures(table[i]))}
        url(i) == Build(table[i].parts, kwargs)
        cands == {i \in 1..Len(table) :
                    /\ table[i].name = name
                    /\ params(i) = {kv[1] : kv \in kwargs}
                    /\ RouteMatch(table[i], url(i)).ok}
    IN  IF cands = {} THEN NoReverseMatch ELSE url(SetMax(cands))

-----------------------------------------------------------------------------
(* Request paths fed to the resolver *)

VIEWER == <<"v", "i", "e", "w", "e", "r">>

\* what may stand before the identifier part of a path: nothing, the two
\* prefixes of the table, the prefixes without their slash, an unknown one
Prefixes ==
    { <<>>, PLUGIN \o SLASH, PLUGIN_DEBUG \o SLASH, PLUGIN, PLUGIN_DEBUG,
      VIEWER \o SLASH }

TailChars == {"0", "2", "4", "a", "-", "+", "/"}

RECURSIVE SeqsUpTo(_, _)
SeqsUpTo(S, n) ==
    IF n = 0 THEN {<<>>}
    ELSE LET shorter == SeqsUpTo(S, n - 1)
         IN  shorter \cup {Append(t, c) : t \in shorter, c \in S}

Tails == SeqsUpTo(TailChars, MaxTail)

\* paths that are longer than the enumerated ones or use other characters
NamedPaths ==
    { PLUGIN \o SLASH \o <<"0", "4", "2">> \o SLASH,
      PLUGIN \o SLASH \o <<"4", "2">> \o SLASH \o <<"e", "x", "t", "r", "a">> \o SLASH,
      PLUGIN \o SLASH \o <<"a", "b", "c">> \o SLASH,
      PLUGIN_DEBUG \o SLASH \o <<"4", "x">> \o SLASH,
      PLUGIN \o SLASH \o <<"-", "7">> \o SLASH,
      PLUGIN_DEBUG \o SLASH \o <<"+", "3">> \o SLASH,
      <<"-", "1">> \o SLASH,
      <<"1", "9", "7", "3", "5", "6", "8">> \o SLASH }

Paths == {pre \o t : pre \in Prefixes, t \in Tails} \cup NamedPaths

\* a few whole paths for the threads that resolve side by side
SamplePaths ==
    { <<"4", "2">> \o SLASH,
      PLUGIN \o SLASH \o <<"0", "4">> \o SLASH,
      PLUGIN_DEBUG \o SLASH \o <<"4">> \o SLASH,
      PLUGIN \o SLASH \o <<"a">> \o SLASH,
      VIEWER \o SLASH \o <<"4">> \o SLASH,
      PLUGIN \o SLASH \o <<"4">> }

ViewNames == {urlpatterns[i].name : i \in 1..Len(urlpatterns)}

\* the names and identifiers reverse() is called with: the registered names and
\* one that is not registered, the identifiers up to the bound and a negative one
ReverseNames == ViewNames \cup {"ol3-viewer"}

ReverseIids == (-1)..MaxIid

Workers == 1..NumWorkers

-----------------------------------------------------------------------------
(* The resolver as a state machine: one record per request thread *)

Idle ==
    [pc |-> "idle", path |-> <<>>, idx |-> 0, view |-> "", name |-> "",
     kwargs |-> {}, called |-> "", status |-> 0, origin |-> <<>>, canon |-> <<>>]

Init ==
    /\ url_patterns = urlpatterns
    /\ req = [w \in Workers |-> Idle]

\* a request for one of the given paths arrives on thread w
Request(w, paths) ==
    /\ req[w].pc = "idle"
    /\ \E p \in paths :
          req' = [req EXCEPT ![w] = [Idle EXCEPT !.pc = "resolving", !.path = p, !.idx = 1]]
    /\ UNCHANGED url_patterns

\* another part of the platform builds a URL from a view name and an identifier
ReverseUrl(w) ==
    /\ req[w].pc = "idle"
    /\ \E name \in ReverseNames, n \in ReverseIids :
          LET url == Reverse(url_patterns, name, {<<IID, n>>})
          IN  req' = [req EXCEPT ![w] =
                        [Idle EXCEPT !.pc = IF url = NoReverseMatch THEN "noreverse"
                                            ELSE "reversed",
                                     !.path = url, !.origin = <<name, n>>]]
    /\ UNCHANGED url_patterns

\* the generated URL is requested
Follow(w) ==
    /\ req[w].pc = "reversed"
    /\ req' = [req EXCEPT ![w].pc = "resolving", ![w].idx = 1]
    /\ UNCHANGED url_patterns

\* faulty variant: a matching entry is moved to the front of the table
TryPatternPromote(w) ==
    /\ req[w].pc = "resolving"
    /\ req[w].idx <= Len(url_patterns)
    /\ LET i == req[w].idx
           r == url_patterns[i]
           m == RouteMatch(r, req[w].path)
       IN  /\ req' = [req EXCEPT ![w] =
                        IF m.ok
                        THEN [@ EXCEPT !.pc = "matched", !.view = r.view,
                                       !.name = r.name, !.kwargs = m.kwargs]
                        ELSE [@ EXCEPT !.idx = @ + 1]]
           /\ url_patterns' =
                 IF m.ok
                 THEN <<r>> \o Take(url_patterns, i - 1) \o Drop(url_patterns, i)
                 ELSE url_patterns

\* one turn of the resolver's loop over url_patterns: the entry at idx is tried
TryPattern(w) ==
    /\ req[w].pc = "resolving"
    /\ req[w].idx <= Len(url_patterns)
    /\ LET r == url_patterns[req[w].idx]
           m == RouteMatch(r, req[w].path)
       IN  req' = [req EXCEPT ![w] =
                     IF m.ok
                     THEN [@ EXCEPT !.pc = "matched", !.view = r.view,
                                    !.name = r.name, !.kwargs = m.kwargs]
                     ELSE [@ EXCEPT !.idx = @ + 1]]
    /\ UNCHANGED url_patterns

\* the loop ran off the table: Resolver404, answered with a 404 response
NotFound(w) ==
    /\ req[w].pc = "resolving"
    /\ req[w].idx > Len(url_patterns)
    /\ req' = [req EXCEPT ![w].pc = "notfound", ![w].status = 404]
    /\ UNCHANGED url_patterns

\* the matched view is called with the captures as keyword arguments
CallView(w) ==
    /\ req[w].pc = "matched"
    /\ req' = [req EXCEPT ![w].pc = "called", ![w].called = req[w].view,
                          ![w].status = 200]
    /\ UNCHANGED url_patterns

\* the URL of the resolved view is built again from the match
ReverseMatch(w) ==
    /\ req[w].pc = "called"
    /\ req' = [req EXCEPT ![w].pc = "canonical",
                          ![w].canon = Reverse(url_patterns, req[w].name, req[w].kwargs)]
    /\ UNCHANGED url_patterns

\* the response is sent and the thread takes the next request
Respond(w) ==
    /\ req[w].pc \in {"called", "canonical", "notfound", "noreverse"}
    /\ req' = [req EXCEPT ![w] = Idle]
    /\ UNCHANGED url_patterns

\* one thread, every path of the bounded alphabet, every reverse() call
Next ==
    \/ Request(1, Paths)
    \/ ReverseUrl(1)
    \/ Follow(1)
    \/ TryPattern(1)
    \/ NotFound(1)
    \/ CallView(1)
    \/ ReverseMatch(1)
    \/ Respond(1)

Spec == Init /\ [][Next]_vars

\* all threads side by side on the sample paths
NextConc ==
    \E w \in Workers :
        \/ Request(w, SamplePaths)
        \/ TryPattern(w)
        \/ NotFound(w)
        \/ CallView(w)
        \/ Respond(w)

SpecConc == Init /\ [][NextConc]_vars

-----------------------------------------------------------------------------
(* What the specification says of the routes: prefix, view, name *)

SpecRoutes ==
    { [pre |-> <<>>, view |-> "index", name |-> "ol3-viewer-index"],
      [pre |-> PLUGIN \o SLASH, view |-> "plugin", name |-> "ol3-viewer-plugin"],
      [pre |-> PLUGIN_DEBUG \o SLASH, view |-> "plugin_debug",
       name |-> "ol3-viewer-plugin-debug"] }

Matched(r) == r.pc \in {"matched", "called", "canonical"}

HasPath(r) == r.pc \in {"resolving", "matched", "called", "canonical", "notfound"}

\* the path is the prefix, then something, then a final slash
HasShape(path, pre) ==
    Len(path) > Len(pre) /\ StartsWith(path, pre) /\ path[Len(path)] = "/"

\* what stands between the prefix and the final slash
IdOf(path, pre) == SubSeq(path, Len(pre) + 1, Len(path) - 1)

AllDigits(d) == d # <<>> /\ \A i \in 1..Len(d) : d[i] \in Digits

IsSegment(d) == \A i \in 1..Len(d) : d[i] # "/"

Numeral(d) == AllDigits(d) /\ (Len(d) > 1 => d[1] # "0")

SignedDigits(d) == d # <<>> /\ d[1] \in {"-", "+"} /\ AllDigits(Tail(d))

RECURSIVE StripZeros(_)
StripZeros(d) == IF Len(d) > 1 /\ d[1] = "0" THEN StripZeros(Tail(d)) ELSE d

\* no entry matched and no view was or will be called: the request is still
\* in the resolver's loop or has ended in the 404 response
Unrouted(r) ==
    /\ r.pc \in {"resolving", "notfound"}
    /\ r.called = ""
    /\ r.kwargs = {}
    /\ r.status = (IF r.pc = "notfound" THEN 404 ELSE 0)

\* the keyword arguments are exactly iid = the integer written as numeral d
IidIs(kwargs, d) ==
    /\ Cardinality(kwargs) = 1
    /\ \A kv \in kwargs : kv[1] = IID /\ kv[2] \in Nat /\ ToStr(kv[2]) = d

Perms(t) ==
    LET n == Len(t)
        bij == {f \in [1..n -> 1..n] : \A a, b \in 1..n : a # b => f[a] # f[b]}
    IN  {[i \in 1..n |-> t[f[i]]] : f \in bij}

\* every order the three declared entries can be listed in
Orders == Perms(urlpatterns)

Hits(table, path) == {i \in 1..Len(table) : RouteMatch(table[i], path).ok}

-----------------------------------------------------------------------------
(* The claims *)

\* C1: a path made of one of the three prefixes, the decimal numeral of a
\* non-negative integer n and a slash never ends in 404; the entry that matches
\* it is the one of its prefix (index, plugin, plugin_debug, under the names
\* ol3-viewer-index, ol3-viewer-plugin, ol3-viewer-plugin-debug), the keyword
\* arguments are exactly iid = n, and the view called is that entry's view.
C1_NumeralPathsResolve ==
    \A w \in Workers : \A e \in SpecRoutes :
        LET r == req[w] IN
        (HasPath(r) /\ HasShape(r.path, e.pre) /\ Numeral(IdOf(r.path, e.pre)))
        => /\ r.pc # "notfound"
           /\ Matched(r) => /\ r.view = e.view
                            /\ r.name = e.name
                            /\ IidIs(r.kwargs, IdOf(r.path, e.pre))
           /\ r.pc \in {"called", "canonical"} => r.called = e.view /\ r.status = 200

C1_Witness ==
    /\ req[1].pc = "called"
    /\ req[1].path = PLUGIN \o SLASH \o <<"4", "2">> \o SLASH
    /\ req[1].called = "plugin"
    /\ req[1].kwargs = {<<IID, 42>>}

\* C2: a path made of one of the three prefixes, a segment that is neither a
\* digit string nor a signed digit string (letters, mixed, empty) and a slash
\* matches no entry: it ends in the 404 response, no view is called, no
\* other status is produced.
C2_NonIntegerNotFound ==
    \A w \in Workers : \A e \in SpecRoutes :
        LET r == req[w]
            d == IdOf(r.path, e.pre)
        IN  (HasPath(r) /\ HasShape(r.path, e.pre) /\ IsSegment(d)
             /\ ~AllDigits(d) /\ ~SignedDigits(d))
            => Unrouted(r)

C2_Witness ==
    /\ req[1].pc = "notfound"
    /\ req[1].path = PLUGIN \o SLASH \o <<"a", "a">> \o SLASH
    /\ req[1].status = 404
    /\ req[1].called = ""

\* C3: a path that is not one of the three prefixes followed by a non-empty
\* digit string and a final slash (unknown prefix, no final slash, more
\* segments) matches no entry and ends in the 404 response with no view called.
C3_OtherShapesNotFound ==
    \A w \in Workers :
        LET r == req[w] IN
        (HasPath(r)
         /\ ~\E e \in SpecRoutes : HasShape(r.path, e.pre) /\ AllDigits(IdOf(r.path, e.pre)))
        => Unrouted(r)

C3_Witness ==
    /\ req[1].pc = "notfound"
    /\ req[1].path = PLUGIN \o SLASH \o <<"4", "2">> \o SLASH \o <<"e", "x", "t", "r", "a">> \o SLASH
    /\ req[1].called = ""

\* C4: every entry has one view, one of the three handlers; no path matches
\* more than one entry, and the result of resolving a path is the same for
\* every order of the entries; the entry the resolver's loop stops at is that
\* result.
C4_RoutesExclusive ==
    /\ \A i \in 1..Len(url_patterns) :
          url_patterns[i].view \in {"index", "plugin", "plugin_debug"}
    /\ \A w \in Workers :
          LET r == req[w] IN
          HasPath(r)
          => /\ Cardinality(Hits(url_patterns, r.path)) <= 1
             /\ \A t \in Orders : Resolve(t, r.path) = Resolve(url_patterns, r.path)
             /\ Matched(r) => r.view = Resolve(url_patterns, r.path).view

C4_Witness ==
    /\ req[1].pc = "matched"
    /\ req[1].path = PLUGIN_DEBUG \o SLASH \o <<"2">> \o SLASH
    /\ Hits(url_patterns, req[1].path) = {3}

\* C5: the names of the table are the three names, pairwise distinct; the path
\* reverse() builds for one of them and an identifier n >= 0 exists, does not
\* end in 404 and resolves to the same name with iid = n.
C5_ReverseRoundTrip ==
    /\ {url_patterns[i].name : i \in 1..Len(url_patterns)}
         = {"ol3-viewer-index", "ol3-viewer-plugin", "ol3-viewer-plugin-debug"}
    /\ \A i, j \in 1..Len(url_patterns) :
          i # j => url_patterns[i].name # url_patterns[j].name
    /\ \A w \in Workers :
          LET r == req[w] IN
          (r.origin # <<>> /\ r.origin[1] \in {e.name : e \in SpecRoutes} /\ r.origin[2] >= 0)
          => /\ r.pc \notin {"noreverse", "notfound"}
             /\ Matched(r) => r.name = r.origin[1] /\ r.kwargs = {<<IID, r.origin[2]>>}

C5_Witness ==
    /\ req[1].pc = "called"
    /\ req[1].origin = <<"ol3-viewer-plugin-debug", 40>>
    /\ req[1].name = "ol3-viewer-plugin-debug"
    /\ req[1].kwargs = {<<IID, 40>>}

\* C6: with several threads resolving side by side the table stays the one
\* built at start-up, same entries in the same order, and every resolution
\* ends as the resolution of its path alone on that table does.
C6_TableImmutable ==
    /\ url_patterns = urlpatterns
    /\ \A w \in Workers :
          LET r == req[w]
              alone == Resolve(urlpatterns, r.path)
          IN  /\ Matched(r) => alone = [found |-> TRUE, view |-> r.view, name |-> r.name,
                                        kwargs |-> r.kwargs]
              /\ r.pc = "notfound" => alone = NotFound404

C6_Witness ==
    /\ req[1].pc = "called"
    /\ req[1].path = PLUGIN \o SLASH \o <<"0", "4">> \o SLASH
    /\ req[2].pc = "notfound"
    /\ req[2].path = VIEWER \o SLASH \o <<"4">> \o SLASH
    /\ url_patterns = urlpatterns

\* C7: the table has three entries; each declares exactly one capture, with
\* the int converter and the parameter name iid; every match carries exactly
\* one keyword argument, named iid.
C7_OneIntCapture ==
    /\ Len(url_patterns) = 3
    /\ \A i \in 1..Len(url_patterns) : Captures(url_patterns[i]) = <<Cap(INT, IID)>>
    /\ \A w \in Workers :
          Matched(req[w])
          => /\ Cardinality(req[w].kwargs) = 1
             /\ \A kv \in req[w].kwargs : kv[1] = IID

C7_Witness ==
    /\ req[1].pc = "called"
    /\ req[1].path = <<"2", "0">> \o SLASH
    /\ req[1].kwargs = {<<IID, 20>>}

\* C8: a path whose identifier is a sign followed by digits matches no entry
\* and ends in 404 with no view called; every iid handed to a view is >= 0.
C8_SignedNotFound ==
    \A w \in Workers :
        LET r == req[w] IN
        /\ \A kv \in r.kwargs : kv[2] >= 0
        /\ \A e \in SpecRoutes :
              (HasPath(r) /\ HasShape(r.path, e.pre) /\ SignedDigits(IdOf(r.path, e.pre)))
              => Unrouted(r)

C8_Witness ==
    /\ req[1].pc = "notfound"
    /\ req[1].path = PLUGIN_DEBUG \o SLASH \o <<"-", "4">> \o SLASH
    /\ req[1].status = 404

\* C9: a matched path resolves as the path with the leading zeros of its
\* identifier removed does: same view, same name, and iid the integer of
\* the stripped numeral; reversing the match gives that stripped path, which
\* resolves to the same match.
C9_LeadingZeros ==
    \A w \in Workers :
        LET r == req[w] IN
        Matched(r)
        => \E e \in SpecRoutes :
              /\ HasShape(r.path, e.pre)
              /\ AllDigits(IdOf(r.path, e.pre))
              /\ LET canonical == e.pre \o StripZeros(IdOf(r.path, e.pre)) \o SLASH
                 IN  /\ IidIs(r.kwargs, StripZeros(IdOf(r.path, e.pre)))
                     /\ Resolve(url_patterns, canonical)
                          = [found |-> TRUE, view |-> r.view, name |-> r.name,
                             kwargs |-> r.kwargs]
                     /\ r.pc = "canonical" => r.canon = canonical

C9_Witness ==
    /\ req[1].pc = "canonical"
    /\ req[1].path = PLUGIN \o SLASH \o <<"0", "4", "2">> \o SLASH
    /\ req[1].kwargs = {<<IID, 42>>}
    /\ req[1].canon = PLUGIN \o SLASH \o <<"4", "2">> \o SLASH
    /\ req[1].canon # req[1].path

====
